---- MODULE Spec2Model ----
(***************************************************************************)
(* Model of luit.eu/comments (src/main.go): an HTTP handler that stores    *)
(* comments per (host, path) thread in Redis, allocates second-resolution  *)
(* identifiers with ZADD, resolves per-thread enablement with a host       *)
(* allow-list fallback, and promotes comments after an Akismet verdict.    *)
(*                                                                         *)
(* Strings are sequences of one-character strings, except that the literal *)
(* parts of the Redis key formats are kept as single elements.  Every      *)
(* conn.Do, the POST to Akismet and the reading of its answer are one step *)
(* each of the handler that issues them, so handlers interleave exactly at *)
(* the store's atomic operations and the network waits.                    *)
(***************************************************************************)
EXTENDS Integers, Sequences, FiniteSets, TLC

(***************************************************************************)
(* Bounds of the model.                                                    *)
(***************************************************************************)
NumHandlers == 2      \* concurrent handler invocations, one request each
MaxClock == 2         \* the wall clock runs over 1..MaxClock seconds
MaxStoreId == 11      \* identifiers of a pre-populated store are 1..MaxStoreId

(***************************************************************************)
(* Program constants.                                                      *)
(***************************************************************************)
PageSize == 10                  \* "LIMIT", "0", "10"
StatusOK == 200
StatusFound == 302
StatusBadRequest == 400
StatusInternalServerError == 500

Handlers == 1..NumHandlers

(***************************************************************************)
(* Strings.                                                                *)
(***************************************************************************)
\* 'a' <= c && c <= 'z' || 'A' <= c && c <= 'Z'
Letters ==
  { "a", "b", "c", "d", "e", "f", "g", "h", "i", "j", "k", "l", "m",
    "n", "o", "p", "q", "r", "s", "t", "u", "v", "w", "x", "y", "z",
    "A", "B", "C", "D", "E", "F", "G", "H", "I", "J", "K", "L", "M",
    "N", "O", "P", "Q", "R", "S", "T", "U", "V", "W", "X", "Y", "Z" }
Digits == {"0", "1", "2", "3", "4", "5", "6", "7", "8", "9"}

\* strings.Index(s, c) + 1; 0 when c does not occur in s
IndexOf(s, c) ==
  LET at == { i \in 1..Len(s) : s[i] = c }
  IN IF at = {} THEN 0 ELSE CHOOSE i \in at : \A j \in at : i <= j

HasPrefix(s, pre) == Len(s) >= Len(pre) /\ SubSeq(s, 1, Len(pre)) = pre

\* the suffix of s that starts at (1-based) position i
From(s, i) == SubSeq(s, i, Len(s))

LastIndexOf(s, c) ==
  LET at == { i \in 1..Len(s) : s[i] = c }
  IN IF at = {} THEN 0 ELSE CHOOSE i \in at : \A j \in at : j <= i

DecimalDigits == <<"0", "1", "2", "3", "4", "5", "6", "7", "8", "9">>

RECURSIVE FormatNat(_)
FormatNat(n) ==
  LET d == DecimalDigits[(n % 10) + 1]
  IN IF n < 10 THEN <<d>> ELSE FormatNat(n \div 10) \o <<d>>

\* fmt's %d and redigo's argument encoding of an int64: the decimal digits
FormatInt(n) == IF n < 0 THEN <<"-">> \o FormatNat(0 - n) ELSE FormatNat(n)

DigitValue(c) == CHOOSE v \in 0..9 : DecimalDigits[v + 1] = c

RECURSIVE ParseNat(_)
ParseNat(s) ==
  IF Len(s) = 1 THEN DigitValue(s[1])
  ELSE 10 * ParseNat(SubSeq(s, 1, Len(s) - 1)) + DigitValue(s[Len(s)])

\* strconv.ParseInt(s, 10, 64) with the error dropped, as getComments calls
\* it: a string that is no decimal number yields 0
ParseInt(s) ==
  LET neg == Len(s) > 0 /\ s[1] = "-"
      body == IF Len(s) > 0 /\ s[1] \in {"-", "+"} THEN Tail(s) ELSE s
  IN IF Len(body) = 0 \/ \E i \in 1..Len(body) : body[i] \notin Digits
     THEN 0
     ELSE IF neg THEN 0 - ParseNat(body) ELSE ParseNat(body)

\* strconv.ParseBool
TrueLiterals ==
  { <<"1">>, <<"t">>, <<"T">>, <<"T", "R", "U", "E">>,
    <<"t", "r", "u", "e">>, <<"T", "r", "u", "e">> }
FalseLiterals ==
  { <<"0">>, <<"f">>, <<"F">>, <<"F", "A", "L", "S", "E">>,
    <<"f", "a", "l", "s", "e">>, <<"F", "a", "l", "s", "e">> }
ParseBool(s) ==
  IF s \in TrueLiterals THEN [val |-> TRUE, err |-> FALSE]
  ELSE IF s \in FalseLiterals THEN [val |-> FALSE, err |-> FALSE]
  ELSE [val |-> FALSE, err |-> TRUE]

\* the text of a string, as error messages and response bodies hold it
RECURSIVE Str(_)
Str(s) == IF s = <<>> THEN "" ELSE Head(s) \o Str(Tail(s))

\* fmt's %q for a string of printable ASCII: in double quotes, with the
\* double quote and the backslash escaped
RECURSIVE QuoteChars(_)
QuoteChars(s) ==
  IF s = <<>> THEN ""
  ELSE (IF Head(s) \in {"\"", "\\"} THEN "\\" ELSE "") \o Head(s)
       \o QuoteChars(Tail(s))

Quote(s) == "\"" \o QuoteChars(s) \o "\""

\* an escaping that lets every character through
EscapeChar_Raw(c) == <<c>>

\* html.EscapeString
EscapeChar(c) ==
  CASE c = "&" -> <<"&", "a", "m", "p", ";">>
    [] c = "'" -> <<"&", "#", "3", "9", ";">>
    [] c = "<" -> <<"&", "l", "t", ";">>
    [] c = ">" -> <<"&", "g", "t", ";">>
    [] c = "\"" -> <<"&", "#", "3", "4", ";">>
    [] OTHER -> <<c>>

RECURSIVE EscapeString(_)
EscapeString(s) ==
  IF s = <<>> THEN <<>> ELSE EscapeChar(Head(s)) \o EscapeString(Tail(s))

(***************************************************************************)
(* net/url.Parse, for URLs over Letters, Digits, "+", "-", ".", ":" and    *)
(* "/" (no query, fragment, userinfo, escape or IPv6 literal).  The result *)
(* carries the two fields the handler reads, Host and Path.                *)
(***************************************************************************)
\* a *url.Error of Op "parse": its Error() is parse "<url>": <why>
ParseError(raw, why) ==
  [ err |-> TRUE, Host |-> <<>>, Path |-> <<>>,
    text |-> "parse " \o Quote(raw) \o ": " \o why ]
ParseOK(host, path) == [err |-> FALSE, Host |-> host, Path |-> path, text |-> ""]

\* the characters a scheme may hold after its first one
SchemeMarks == Digits \cup {"+", "-", "."}

\* url.getScheme: [err, scheme, rest].  The scan stops at the first
\* character that is no letter, or that is a scheme mark in first position.
getScheme(raw) ==
  LET stop == { i \in 1..Len(raw) :
                  \/ raw[i] \notin (Letters \cup SchemeMarks)
                  \/ (i = 1 /\ raw[i] \in SchemeMarks) }
  IN IF stop = {} THEN [err |-> FALSE, scheme |-> <<>>, rest |-> raw]
     ELSE LET i == CHOOSE k \in stop : \A j \in stop : k <= j
          IN IF raw[i] = ":"
             THEN IF i = 1
                  THEN [err |-> TRUE, scheme |-> <<>>, rest |-> <<>>]
                  ELSE [err |-> FALSE, scheme |-> SubSeq(raw, 1, i - 1),
                        rest |-> From(raw, i + 1)]
             ELSE [err |-> FALSE, scheme |-> <<>>, rest |-> raw]

\* url.validOptionalPort applied to the authority from its last colon on
validOptionalPort(port) ==
  \/ port = <<>>
  \/ /\ port[1] = ":"
     /\ \A i \in 2..Len(port) : port[i] \in Digits

\* url.parseHost: the host keeps its port
parseHostOK(authority) ==
  LET i == LastIndexOf(authority, ":")
  IN i = 0 \/ validOptionalPort(From(authority, i))

\* url.parseHost's error for an authority whose port is not valid
InvalidPort(authority) ==
  "invalid port "
  \o Quote(From(authority, LastIndexOf(authority, ":")))
  \o " after host"

Parse(raw) ==
  LET s == getScheme(raw)
  IN IF s.err THEN ParseError(raw, "missing protocol scheme")
     ELSE IF ~HasPrefix(s.rest, <<"/">>) /\ s.scheme # <<>>
     THEN ParseOK(<<>>, <<>>)                            \* opaque URL
     ELSE IF /\ ~HasPrefix(s.rest, <<"/">>)
             /\ LET slash == IndexOf(s.rest, "/")
                    segment == IF slash = 0 THEN s.rest
                               ELSE SubSeq(s.rest, 1, slash - 1)
                IN IndexOf(segment, ":") # 0
     THEN ParseError(raw, "first path segment in URL cannot contain colon")
     ELSE IF /\ (s.scheme # <<>> \/ ~HasPrefix(s.rest, <<"/", "/", "/">>))
             /\ HasPrefix(s.rest, <<"/", "/">>)
     THEN LET after == From(s.rest, 3)
              slash == IndexOf(after, "/")
              authority == IF slash = 0 THEN after
                           ELSE SubSeq(after, 1, slash - 1)
              path == IF slash = 0 THEN <<>> ELSE From(after, slash)
          IN IF parseHostOK(authority) THEN ParseOK(authority, path)
             ELSE ParseError(raw, InvalidPort(authority))
     ELSE ParseOK(<<>>, s.rest)

(***************************************************************************)
(* The Redis key schema: fmt.Sprintf of the key formats.                   *)
(***************************************************************************)
keyAutoEnable == <<"{luit.eu/comments}:auto_enable">>
keyEnabled(host, path) ==
  <<"{luit.eu/comments://">> \o host \o path \o <<"}:enabled">>
\* an :all key that does not depend on the thread
keyAll_NoThread(host, path) == <<"{luit.eu/comments}:all">>

keyAll(host, path) ==
  <<"{luit.eu/comments://">> \o host \o path \o <<"}:all">>
keyApproved(host, path) ==
  <<"{luit.eu/comments://">> \o host \o path \o <<"}:approved">>
\* a :comment key that leaves the identifier out
keyComment_NoId(host, path, n) ==
  <<"{luit.eu/comments://">> \o host \o path \o <<"}:comment:">>

keyComment(host, path, n) ==
  <<"{luit.eu/comments://">> \o host \o path \o <<"}:comment:">> \o FormatInt(n)

(***************************************************************************)
(* State.                                                                  *)
(***************************************************************************)
VARIABLES
  now,          \* time.Now().Unix(), the wall clock in whole seconds
  akismetKey,   \* os.Getenv("AKISMET_KEY")
  autoEnable,   \* Redis: the set of hostnames at keyAutoEnable
  strs,         \* Redis: string values by key (the :enabled flags)
  zsets,        \* Redis: sorted sets by key, each a set of <<score, member>>
  hashes,       \* Redis: hashes by key, each a function field -> value
  pc,           \* per handler: the call it is about to issue
  r,            \* per handler: the *http.Request it serves
  en,           \* per handler: commentHandler's en
  id,           \* per handler: saveComment's id
  wake,         \* per handler: the second time.Sleep returns at the earliest
  approved,     \* per handler: commentHandler's approved
  err,          \* per handler: the last error returned to commentHandler
  body,         \* per handler: autoApproveComment's body, Akismet's answer
  ids,          \* per handler: getComments' ids still to fetch
  comments,     \* per handler: getComments' comments
  resp,         \* per handler: the response written, [status, body]
  writes,       \* per handler: the keys its store commands have modified
  posted,       \* the handlers that have posted to the Akismet endpoint
  inserted,     \* history: per sorted-set key, the members ZADD newly added,
                \* in the order of the adds
  seen,         \* history, per handler: the identifiers its thread's :all set
                \* held when saveComment last sampled the clock
  retries       \* history, per handler: the times saveComment's loop has slept

store == <<autoEnable, strs, zsets, hashes>>
locals == <<pc, r, en, id, wake, approved, err, body, ids, comments, resp>>
history == <<inserted, seen, retries>>
vars == <<now, akismetKey, store, locals, writes, posted, history>>

(***************************************************************************)
(* Redis commands and redigo's reply helpers.  A reply is nil, an integer, *)
(* a bulk string, or an error; the error's text names the failed command.  *)
(***************************************************************************)
ErrReply(msg) == [t |-> "err", v |-> msg]
NilReply == [t |-> "nil"]
IntReply(n) == [t |-> "int", v |-> n]
BulkReply(s) == [t |-> "bulk", v |-> s]

\* redis.Bool: [val, err], err one of "", "ErrNil", or a message
RedisBool(reply) ==
  CASE reply.t = "err" -> [val |-> FALSE, err |-> reply.v]
    [] reply.t = "nil" -> [val |-> FALSE, err |-> "ErrNil"]
    [] reply.t = "int" -> [val |-> reply.v # 0, err |-> ""]
    [] reply.t = "bulk" ->
         LET b == ParseBool(reply.v)
         IN [val |-> b.val, err |-> IF b.err THEN "strconv.ParseBool" ELSE ""]
    [] OTHER -> [val |-> FALSE, err |-> "unexpected type for Bool"]

\* a GET that answers nil for a flag that is not true
Get_NilUnlessTrue(key) ==
  IF key \in DOMAIN strs /\ ParseBool(strs[key]).val THEN BulkReply(strs[key])
  ELSE NilReply

\* GET key
Get(key) == IF key \in DOMAIN strs THEN BulkReply(strs[key]) ELSE NilReply

\* SET key value
Set(key, value) ==
  [k \in DOMAIN strs \cup {key} |-> IF k = key THEN value ELSE strs[k]]

\* SISMEMBER keyAutoEnable member
SIsMember(member) == IntReply(IF member \in autoEnable THEN 1 ELSE 0)

ZMembers(zs, key) == IF key \in DOMAIN zs THEN zs[key] ELSE {}

\* ZADD key score member: the reply, the number of members newly added
ZAddReply(key, score, member) ==
  IntReply(IF \E e \in ZMembers(zsets, key) : e[2] = member THEN 0 ELSE 1)

\* ZADD key score member: the sorted sets afterwards (an existing member
\* takes the new score)
ZAdd(key, score, member) ==
  LET old == ZMembers(zsets, key)
      new == {e \in old : e[2] # member} \cup {<<score, member>>}
  IN [k \in DOMAIN zsets \cup {key} |-> IF k = key THEN new ELSE zsets[k]]

\* the members of a sorted set in ascending score order
RECURSIVE ByScore(_)
ByScore(es) ==
  IF es = {} THEN <<>>
  ELSE LET e == CHOOSE x \in es : \A y \in es : x[1] <= y[1]
       IN <<e[2]>> \o ByScore(es \ {e})

\* a range query that drops its LIMIT
ZRangeByScore_NoLimit(key, count) == ByScore(ZMembers(zsets, key))

\* ZREVRANGEBYSCORE key +inf -inf LIMIT 0 count
ZRangeByScore_Rev(key, count) ==
  LET all == ByScore(ZMembers(zsets, key))
      rev == [i \in 1..Len(all) |-> all[Len(all) + 1 - i]]
  IN SubSeq(rev, 1, IF Len(rev) < count THEN Len(rev) ELSE count)

\* ZRANGEBYSCORE key -inf +inf LIMIT 0 count
ZRangeByScore(key, count) ==
  LET all == ByScore(ZMembers(zsets, key))
  IN SubSeq(all, 1, IF Len(all) < count THEN Len(all) ELSE count)

\* HGETALL key: the hash, empty when the key does not exist
HGetAll(key) == IF key \in DOMAIN hashes THEN hashes[key] ELSE <<>>

\* HMSET key field value ...: the hashes afterwards
HMSet(key, fields) ==
  LET old == HGetAll(key)
      new == [f \in DOMAIN old \cup DOMAIN fields |->
                IF f \in DOMAIN fields THEN fields[f] ELSE old[f]]
  IN [k \in DOMAIN hashes \cup {key} |-> IF k = key THEN new ELSE hashes[k]]

(***************************************************************************)
(* Requests.  The inputs a handler is started with are drawn from these.   *)
(***************************************************************************)
UrlAB == <<"h", ":", "/", "/", "a", "/", "b">>   \* host a, path /b
UrlB == <<"h", ":", "/", "/", "b">>               \* host b, empty path
UrlNoHost == <<"a", "/", "b">>                     \* no authority: path a/b
UrlBad == <<":", "a">>                             \* missing protocol scheme
UrlNone == <<>>                                    \* no url value
URLs == { UrlAB, UrlB, UrlNoHost, UrlBad, UrlNone }
Author == <<"x", "&", "'">>
Content == <<"<", "y", "\"", ">">>
RemoteAddr == <<"1", ".", "2", ".", "3", ".", "4", ":", "8">>

\* an *http.Request after r.ParseForm: its method, whether ParseForm
\* returned an error, the form values the handler reads, the headers and
\* the peer address
Form(method, url, author, content, forwardedFor) ==
  [ method |-> method, parseFormErr |-> FALSE, url |-> url,
    comment_author |-> author,
    comment_content |-> content, comment_author_email |-> <<>>,
    comment_author_url |-> <<>>, xForwardedFor |-> forwardedFor,
    userAgent |-> <<"u">>, referer |-> <<>>, remoteAddr |-> RemoteAddr ]

\* the request with a pair ParseForm fails on next to the values it read
Malformed(form) == [form EXCEPT !.parseFormErr = TRUE]

\* reads of the thread a/b, by a url with and without authority, and with a
\* bad url; a method without a case; submissions complete but for one
\* thing each, those to host b through a proxy; a read, a complete
\* submission and a request of another method whose form did not parse
Requests ==
  { Form("GET", u, <<>>, <<>>, <<>>) : u \in {UrlAB, UrlNoHost, UrlBad} }
  \cup { Form("HEAD", UrlAB, <<>>, <<>>, <<>>) }
  \cup { Form("POST", u, Author, Content, IF u = UrlB THEN <<"9">> ELSE <<>>) :
           u \in URLs }
  \cup { Form("POST", UrlAB, <<>>, Content, <<>>),
         Form("POST", UrlAB, Author, <<>>, <<>>) }
  \cup { Malformed(Form("GET", UrlAB, <<>>, <<>>, <<>>)),
         Malformed(Form("POST", UrlAB, Author, Content, <<>>)),
         Malformed(Form("HEAD", UrlAB, <<>>, <<>>, <<>>)) }

\* a handler that serves no request yet
NoRequest ==
  [ method |-> "", parseFormErr |-> FALSE, url |-> <<>>,
    comment_author |-> <<>>,
    comment_content |-> <<>>, comment_author_email |-> <<>>,
    comment_author_url |-> <<>>, xForwardedFor |-> <<>>,
    userAgent |-> <<>>, referer |-> <<>>, remoteAddr |-> <<>> ]

(***************************************************************************)
(* net.ResolveTCPAddr("tcp", addr) and addr.IP.String().  The port is a   *)
(* number or a service name of the table net has compiled in.  The host is *)
(* empty or an IP literal: the resolver of the model knows no host names,  *)
(* so the lookup of any other host fails.  An address is held as its eight *)
(* 16-bit groups, an IPv4 address in its IPv4-in-IPv6 form, as net.IP      *)
(* holds it.                                                               *)
(***************************************************************************)
RECURSIVE Split(_, _)
Split(s, sep) ==
  LET i == IndexOf(s, sep)
  IN IF i = 0 THEN <<s>>
     ELSE <<SubSeq(s, 1, i - 1)>> \o Split(From(s, i + 1), sep)

RECURSIVE Join(_, _)
Join(fields, sep) ==
  IF fields = <<>> THEN <<>>
  ELSE IF Len(fields) = 1 THEN fields[1]
  ELSE fields[1] \o <<sep>> \o Join(Tail(fields), sep)

\* an *net.AddrError: its Error() is address <addr>: <why>
AddrError(addr, why) ==
  IF addr = <<>> THEN why ELSE "address " \o Str(addr) \o ": " \o why

\* net.SplitHostPort: [err, host, port]
SplitHostPort(hostport) ==
  LET i == LastIndexOf(hostport, ":")
      end == IndexOf(hostport, "]")
      bracket == hostport[1] = "["
      fail(why) ==
        [err |-> AddrError(hostport, why), host |-> <<>>, port |-> <<>>]
      host == IF bracket THEN SubSeq(hostport, 2, end - 1)
              ELSE SubSeq(hostport, 1, i - 1)
  IN IF i = 0 THEN fail("missing port in address")
     ELSE IF bracket /\ end = 0 THEN fail("missing ']' in address")
     ELSE IF bracket /\ end = Len(hostport)
     THEN fail("missing port in address")
     ELSE IF bracket /\ end + 1 # i
     THEN IF hostport[end + 1] = ":" THEN fail("too many colons in address")
          ELSE fail("missing port in address")
     ELSE IF ~bracket /\ IndexOf(host, ":") # 0
     THEN fail("too many colons in address")
     ELSE IF IndexOf(From(hostport, IF bracket THEN 2 ELSE 1), "[") # 0
     THEN fail("unexpected '[' in address")
     ELSE IF IndexOf(From(hostport, IF bracket THEN end + 1 ELSE 1), "]") # 0
     THEN fail("unexpected ']' in address")
     ELSE [err |-> "", host |-> host, port |-> From(hostport, i + 1)]

\* a uint32 is held as its two 16-bit halves, <<high, low>>
Half == 65536
MaxUint32 == <<Half - 1, Half - 1>>
\* parsePort's cutoff, 1 << 30, has this high half and a low half of zero
CutoffHigh == 16384

\* the loop of net.parsePort over the digits left, n the number so far:
\* the text is a service name (lookup) when a character is no digit, and
\* the number stops at the maximum once it has reached the cutoff; the
\* product and the sum are uint32's, so they wrap
RECURSIVE ReadPort(_, _)
ReadPort(s, n) ==
  IF s = <<>> THEN [lookup |-> FALSE, n |-> n]
  ELSE IF Head(s) \notin Digits THEN [lookup |-> TRUE, n |-> <<0, 0>>]
  ELSE IF n[1] >= CutoffHigh THEN [lookup |-> FALSE, n |-> MaxUint32]
  ELSE LET low == 10 * n[2]
           m == <<(10 * n[1] + low \div Half) % Half, low % Half>>
           sum == m[2] + DigitValue(Head(s))
           nn == <<(m[1] + sum \div Half) % Half, sum % Half>>
       IN IF nn[1] < m[1] \/ (nn[1] = m[1] /\ nn[2] < m[2])
          THEN [lookup |-> FALSE, n |-> MaxUint32]
          ELSE ReadPort(Tail(s), nn)

\* the service names net has compiled in for tcp, with their ports; the
\* names of the host's services file are not part of the model
Services ==
  { <<<<"f", "t", "p">>, 21>>,
    <<<<"f", "t", "p", "s">>, 990>>,
    <<<<"g", "o", "p", "h", "e", "r">>, 70>>,
    <<<<"h", "t", "t", "p">>, 80>>,
    <<<<"h", "t", "t", "p", "s">>, 443>>,
    <<<<"i", "m", "a", "p", "2">>, 143>>,
    <<<<"i", "m", "a", "p", "3">>, 220>>,
    <<<<"i", "m", "a", "p", "s">>, 993>>,
    <<<<"p", "o", "p", "3">>, 110>>,
    <<<<"p", "o", "p", "3", "s">>, 995>>,
    <<<<"s", "m", "t", "p">>, 25>>,
    <<<<"s", "u", "b", "m", "i", "s", "s", "i", "o", "n", "s">>, 465>>,
    <<<<"s", "s", "h">>, 22>>,
    <<<<"t", "e", "l", "n", "e", "t">>, 23>> }

LowerCase ==
  <<"a", "b", "c", "d", "e", "f", "g", "h", "i", "j", "k", "l", "m",
    "n", "o", "p", "q", "r", "s", "t", "u", "v", "w", "x", "y", "z">>
UpperCase ==
  <<"A", "B", "C", "D", "E", "F", "G", "H", "I", "J", "K", "L", "M",
    "N", "O", "P", "Q", "R", "S", "T", "U", "V", "W", "X", "Y", "Z">>

\* net's lowerASCIIBytes
ToLower(s) ==
  [ i \in 1..Len(s) |->
      IF \E k \in 1..26 : UpperCase[k] = s[i]
      THEN LowerCase[CHOOSE k \in 1..26 : UpperCase[k] = s[i]]
      ELSE s[i] ]

\* net.LookupPort("tcp", service): the error's text, "" for nil.  A number
\* is a port when it is in 0..65535, after an optional sign; any other text
\* is looked up as a service name, whatever its case.
LookupPort(service) ==
  LET neg == service[1] = "-"
      digits == IF service[1] \in {"+", "-"} THEN Tail(service) ELSE service
      port == ReadPort(digits, <<0, 0>>)
  IN IF service = <<>> THEN ""
     ELSE IF port.lookup
     THEN IF \E e \in Services : e[1] = ToLower(service) THEN ""
          ELSE "lookup tcp/" \o Str(service) \o ": unknown port"
     ELSE IF (neg /\ port.n # <<0, 0>>) \/ (~neg /\ port.n[1] # 0)
     THEN AddrError(service, "invalid port")
     ELSE ""

HexDigits ==
  <<"0", "1", "2", "3", "4", "5", "6", "7", "8", "9",
    "a", "b", "c", "d", "e", "f">>
UpperHex == <<"A", "B", "C", "D", "E", "F">>

IsHex(c) ==
  \/ \E v \in 1..16 : HexDigits[v] = c
  \/ \E v \in 1..6 : UpperHex[v] = c

HexValue(c) ==
  IF \E v \in 1..16 : HexDigits[v] = c
  THEN (CHOOSE v \in 1..16 : HexDigits[v] = c) - 1
  ELSE (CHOOSE v \in 1..6 : UpperHex[v] = c) + 9

RECURSIVE ParseHex(_)
ParseHex(s) ==
  IF s = <<>> THEN 0
  ELSE 16 * ParseHex(SubSeq(s, 1, Len(s) - 1)) + HexValue(s[Len(s)])

RECURSIVE FormatHex(_)
FormatHex(n) ==
  IF n < 16 THEN <<HexDigits[n + 1]>>
  ELSE FormatHex(n \div 16) \o <<HexDigits[(n % 16) + 1]>>

\* the number of hexadecimal digits s starts with
HexRun(s) ==
  IF \E i \in 1..Len(s) : ~IsHex(s[i])
  THEN (CHOOSE i \in 1..Len(s) :
          ~IsHex(s[i]) /\ \A j \in 1..(i - 1) : IsHex(s[j])) - 1
  ELSE Len(s)

NoAddr == [err |-> TRUE, groups |-> <<>>]
Zeros(n) == [k \in 1..n |-> 0]

\* netip's parseIPv4: four decimal fields of at most 255, none with a
\* leading zero
parseIPv4(s) ==
  LET f == Split(s, ".")
      octet == [k \in 1..4 |-> ParseNat(f[k])]
  IN IF /\ Len(f) = 4
        /\ \A k \in 1..4 :
             /\ Len(f[k]) \in 1..3
             /\ \A j \in 1..Len(f[k]) : f[k][j] \in Digits
             /\ (Len(f[k]) = 1 \/ f[k][1] # "0")
        /\ \A k \in 1..4 : octet[k] <= 255
     THEN [err |-> FALSE,
           groups |-> <<0, 0, 0, 0, 0, 65535,
                        256 * octet[1] + octet[2], 256 * octet[3] + octet[4]>>]
     ELSE NoAddr

\* the end of netip's parseIPv6: the "::" at position ellipsis stands for
\* the groups that are missing, at least one
Expand(s, groups, ellipsis) ==
  IF s # <<>> THEN NoAddr
  ELSE IF Len(groups) < 8
  THEN IF ellipsis < 0 THEN NoAddr
       ELSE [err |-> FALSE,
             groups |-> SubSeq(groups, 1, ellipsis)
                        \o Zeros(8 - Len(groups))
                        \o From(groups, ellipsis + 1)]
  ELSE IF ellipsis >= 0 THEN NoAddr
  ELSE [err |-> FALSE, groups |-> groups]

\* the loop of netip's parseIPv6: groups of one to four hexadecimal digits
\* separated by colons, at most one "::", and possibly an IPv4 address in
\* place of the last two groups
RECURSIVE ParseGroups(_, _, _)
ParseGroups(s, groups, ellipsis) ==
  LET run == HexRun(s)
      more == From(s, run + 1)
      next == Append(groups, ParseHex(SubSeq(s, 1, run)))
      v4 == parseIPv4(s)
  IN IF Len(groups) = 8 THEN Expand(s, groups, ellipsis)
     ELSE IF run = 0 \/ run > 4 THEN NoAddr
     ELSE IF more # <<>> /\ more[1] = "."
     THEN IF \/ (ellipsis < 0 /\ Len(groups) # 6)
             \/ Len(groups) > 6
             \/ v4.err
          THEN NoAddr
          ELSE Expand(<<>>, groups \o SubSeq(v4.groups, 7, 8), ellipsis)
     ELSE IF more = <<>> THEN Expand(<<>>, next, ellipsis)
     ELSE IF more[1] # ":" \/ Len(more) = 1 THEN NoAddr
     ELSE IF more[2] = ":"
     THEN IF ellipsis >= 0 THEN NoAddr
          ELSE IF Len(more) = 2 THEN Expand(<<>>, next, Len(next))
          ELSE ParseGroups(From(more, 3), next, Len(next))
     ELSE ParseGroups(Tail(more), next, ellipsis)

\* netip's parseIPv6: the zone after "%" is not part of the IP
parseIPv6(s) ==
  LET z == IndexOf(s, "%")
      a == IF z = 0 THEN s ELSE SubSeq(s, 1, z - 1)
  IN IF z # 0 /\ z = Len(s) THEN NoAddr
     ELSE IF HasPrefix(a, <<":", ":">>)
     THEN IF Len(a) = 2 THEN [err |-> FALSE, groups |-> Zeros(8)]
          ELSE ParseGroups(From(a, 3), <<>>, 0)
     ELSE ParseGroups(a, <<>>, -1)

\* netip.ParseAddr: the first of ".", ":" and "%" decides the family
ParseAddr(s) ==
  LET marks == { i \in 1..Len(s) : s[i] \in {".", ":", "%"} }
      i == CHOOSE k \in marks : \A j \in marks : k <= j
  IN IF marks = {} THEN NoAddr
     ELSE IF s[i] = "." THEN parseIPv4(s)
     ELSE IF s[i] = ":" THEN parseIPv6(s)
     ELSE NoAddr

\* net.IP.String of a 16-byte address: dotted decimal for an IPv4-in-IPv6
\* address, else lower-case groups with the first longest run of two or
\* more zero groups written "::"
IPString(g) ==
  LET runs == { x \in (1..8) \X (1..8) :
                  x[1] < x[2] /\ \A k \in x[1]..x[2] : g[k] = 0 }
      run == CHOOSE x \in runs : \A y \in runs :
               \/ y[2] - y[1] < x[2] - x[1]
               \/ (y[2] - y[1] = x[2] - x[1] /\ x[1] <= y[1])
      hex(a, b) == Join([k \in 1..(b - a + 1) |-> FormatHex(g[a + k - 1])], ":")
  IN IF SubSeq(g, 1, 6) = <<0, 0, 0, 0, 0, 65535>>
     THEN Join(<<FormatNat(g[7] \div 256), FormatNat(g[7] % 256),
                 FormatNat(g[8] \div 256), FormatNat(g[8] % 256)>>, ".")
     ELSE IF runs = {} THEN hex(1, 8)
     ELSE hex(1, run[1] - 1) \o <<":", ":">> \o hex(run[2] + 1, 8)

\* net.ResolveTCPAddr("tcp", addr) followed by addr.IP.String(): [err, ip]
ResolveTCPAddr(addr) ==
  LET hp == SplitHostPort(addr)
      port == LookupPort(hp.port)
      ip == ParseAddr(hp.host)
      nil == [err |-> "", ip |-> <<"<", "n", "i", "l", ">">>]
  IN IF addr = <<>> THEN nil
     ELSE IF hp.err # "" THEN [err |-> hp.err, ip |-> <<>>]
     ELSE IF port # "" THEN [err |-> port, ip |-> <<>>]
     ELSE IF hp.host = <<>> THEN nil
     ELSE IF ip.err
     THEN [err |-> "lookup " \o Str(hp.host) \o ": no such host", ip |-> <<>>]
     ELSE [err |-> "", ip |-> IPString(ip.groups)]
\* cleanCommentSubmitRequest: [err, req]; err is "" for nil
NoSubmitRequest ==
  [ Permalink |-> <<>>, host |-> <<>>, path |-> <<>>, UserIP |-> <<>>,
    UserAgent |-> <<>>, Referrer |-> <<>>, Author |-> <<>>,
    AuthorEmail |-> <<>>, AuthorURL |-> <<>>, Content |-> <<>> ]

cleanCommentSubmitRequest(form) ==
  LET u == Parse(form.url)
      addr == ResolveTCPAddr(form.remoteAddr)
      userIP == IF form.xForwardedFor = <<>> THEN addr.ip
                ELSE form.xForwardedFor
  IN IF u.err THEN [err |-> u.text, req |-> NoSubmitRequest]
     ELSE IF u.Host = <<>>
     THEN [err |-> "bad url value", req |-> NoSubmitRequest]
     ELSE IF form.comment_author = <<>>
     THEN [err |-> "bad comment_author value", req |-> NoSubmitRequest]
     ELSE IF form.comment_content = <<>>
     THEN [err |-> "bad comment_content value", req |-> NoSubmitRequest]
     ELSE IF form.xForwardedFor = <<>> /\ addr.err # ""
     THEN [err |-> addr.err, req |-> NoSubmitRequest]
     ELSE [err |-> "",
           req |-> [ Permalink |-> form.url, host |-> u.Host,
                     path |-> u.Path, UserIP |-> userIP,
                     UserAgent |-> form.userAgent,
                     Referrer |-> form.referer,
                     Author |-> form.comment_author,
                     AuthorEmail |-> form.comment_author_email,
                     AuthorURL |-> form.comment_author_url,
                     Content |-> form.comment_content ]]

\* redis.Args{}.AddFlat(req): the exported fields under their redis tags
AddFlat(req) ==
  [ permalink |-> req.Permalink, user_ip |-> req.UserIP,
    user_agent |-> req.UserAgent, referrer |-> req.Referrer,
    comment_author |-> req.Author,
    comment_author_email |-> req.AuthorEmail,
    comment_author_url |-> req.AuthorURL,
    comment_content |-> req.Content ]

\* redis.ScanStruct(vals, &c) into a zero comment, then the handler's
\* c.ID = id and the escaping of Author and Content
Comment(member, vals) ==
  [ ID |-> member,
    Author |-> EscapeString(IF "comment_author" \in DOMAIN vals
                            THEN vals["comment_author"] ELSE <<>>),
    Content |-> EscapeString(IF "comment_content" \in DOMAIN vals
                             THEN vals["comment_content"] ELSE <<>>) ]

\* the thread a handler works on: req.host, req.path (POST), u.Host, u.Path (GET)
Host(p) == Parse(r[p].url).Host
Path(p) == Parse(r[p].url).Path
Req(p) == cleanCommentSubmitRequest(r[p]).req

(***************************************************************************)
(* commentHandler, cut at its store and network calls.                     *)
(***************************************************************************)
\* A response is the status of the first WriteHeader and the text written
\* to its body by http.Error, in the order of the calls; the JSON that
\* json.Encode adds to the body is kept in comments.
NoResponse == [status |-> 0, text |-> ""]

\* http.Error(w, msg, status), and the WriteHeader(status) of json.Encode
\* (msg ""), of http.Redirect to a POST (msg "") and of net/http at the
\* handler's return (msg ""): a status that is already written stays
Write(w, status, msg) ==
  [ status |-> IF w.status = 0 THEN status ELSE w.status,
    text |-> IF msg = "" THEN w.text ELSE w.text \o msg \o "\n" ]

\* commentHandler's first lines, the check of r.ParseForm: an error is
\* answered and the handler goes on
ParseFormChecked(form) ==
  IF form.parseFormErr
  THEN Write(NoResponse, StatusBadRequest, "unable to parse form")
  ELSE NoResponse

\* the response so far; a handler that starts on its request r'[p] has run
\* its first lines
Written(p) == IF pc[p] = "idle" THEN ParseFormChecked(r'[p]) ELSE resp[p]

Goto(p, label) ==
  /\ pc' = [pc EXCEPT ![p] = label]
  /\ resp' = [resp EXCEPT ![p] = Written(p)]

\* http.Error, json.Encode or http.Redirect, and the handler's return
Respond(p, status, text) ==
  /\ pc' = [pc EXCEPT ![p] = "done"]
  /\ resp' = [resp EXCEPT ![p] = Write(Written(p), status, text)]

\* what a ZADD leaves in inserted: the member, when it was newly added
Inserted(key, member, new) ==
  inserted' =
    IF new
    THEN [ k \in DOMAIN inserted \cup {key} |->
             IF k = key
             THEN Append(IF key \in DOMAIN inserted THEN inserted[key] ELSE <<>>,
                         member)
             ELSE inserted[k] ]
    ELSE inserted

\* what a store command that changes key leaves in writes
Wrote(p, key, applied) ==
  writes' = IF applied THEN [writes EXCEPT ![p] = @ \cup {key}] ELSE writes

\* commentHandler, case "GET", up to getComments' first store call
RequestGet(p) ==
  /\ pc[p] = "idle"
  /\ \E form \in {f \in Requests : f.method = "GET"} :
       /\ r' = [r EXCEPT ![p] = form]
       /\ IF Parse(form.url).err
          THEN Respond(p, StatusBadRequest, "bad URL")
          ELSE Goto(p, "getComments_ZRANGEBYSCORE")
  /\ UNCHANGED <<now, akismetKey, body, history,
                 store, en, id, wake, approved, err, ids,
                 comments, writes, posted>>

\* commentHandler going on after cleanCommentSubmitRequest returned an error
AfterClean_NoReturn(p, c) == Goto(p, "autoEnabled_GET")

\* commentHandler for a method its switch has no case for: it returns, and
\* net/http answers 200 with an empty body unless the check of r.ParseForm
\* has answered already
RequestOther(p) ==
  /\ pc[p] = "idle"
  /\ \E form \in {f \in Requests : f.method \notin {"GET", "POST"}} :
       r' = [r EXCEPT ![p] = form]
  /\ Respond(p, StatusOK, "")
  /\ UNCHANGED <<now, akismetKey, body, history,
                 store, en, id, wake, approved, err, ids,
                 comments, writes, posted>>

\* commentHandler after cleanCommentSubmitRequest returned c
AfterClean(p, c) ==
  IF c.err # "" THEN Respond(p, StatusBadRequest, c.err)
  ELSE Goto(p, "autoEnabled_GET")

\* commentHandler, case "POST", up to autoEnabled's first store call, for a
\* request among forms
RequestPostOf(p, forms) ==
  /\ pc[p] = "idle"
  /\ \E form \in {f \in forms : f.method = "POST"} :
       /\ r' = [r EXCEPT ![p] = form]
       /\ AfterClean(p, cleanCommentSubmitRequest(form))
  /\ UNCHANGED <<now, akismetKey, body, history,
                 store, en, id, wake, approved, err, ids,
                 comments, writes, posted>>

RequestPost(p) == RequestPostOf(p, Requests)

\* commentHandler without its "comments not enabled" return
AfterAutoEnabled_NoEnabledCheck(p, e, er) ==
  /\ en' = [en EXCEPT ![p] = e]
  /\ err' = [err EXCEPT ![p] = er]
  /\ IF er # "" THEN Respond(p, StatusInternalServerError, "backend error")
     ELSE Goto(p, "saveComment_Now")

\* commentHandler after autoEnabled returned (e, er)
AfterAutoEnabled(p, e, er) ==
  /\ en' = [en EXCEPT ![p] = e]
  /\ err' = [err EXCEPT ![p] = er]
  /\ IF er # "" THEN Respond(p, StatusInternalServerError, "backend error")
     ELSE IF ~e THEN Respond(p, StatusBadRequest, "comments not enabled")
     ELSE Goto(p, "saveComment_Now")

\* autoEnabled: GET of the thread's flag
AutoEnabledGet(p) ==
  /\ pc[p] = "autoEnabled_GET"
  /\ \E ok \in BOOLEAN :
       LET reply == IF ok THEN Get(keyEnabled(Host(p), Path(p)))
                    ELSE ErrReply("GET failed")
           b == RedisBool(reply)
       IN IF b.err = "ErrNil"
          THEN Goto(p, "autoEnabled_SISMEMBER") /\ UNCHANGED <<en, err>>
          ELSE AfterAutoEnabled(p, b.val, b.err)
  /\ UNCHANGED <<now, akismetKey, body, history,
                 store, r, id, wake, approved, ids,
                 comments, writes, posted>>

\* autoEnabled: SISMEMBER of the host in the allow-list
AutoEnabledSIsMember(p) ==
  /\ pc[p] = "autoEnabled_SISMEMBER"
  /\ \E ok \in BOOLEAN :
       LET reply == IF ok THEN SIsMember(Host(p))
                    ELSE ErrReply("SISMEMBER failed")
           b == RedisBool(reply)
       IN IF b.err = "" /\ b.val
          THEN Goto(p, "autoEnabled_SET") /\ UNCHANGED <<en, err>>
          ELSE AfterAutoEnabled(p, b.val, b.err)
  /\ UNCHANGED <<now, akismetKey, body, history,
                 store, r, id, wake, approved, ids,
                 comments, writes, posted>>

\* a cached flag that does not read back as true
CachedFlag_False == <<"f", "a", "l", "s", "e">>

\* the value autoEnabled caches: "true"
CachedFlag == <<"t", "r", "u", "e">>

\* autoEnabled: SET of the flag, its reply ignored
AutoEnabledSet(p) ==
  /\ pc[p] = "autoEnabled_SET"
  /\ \E applied \in BOOLEAN :
       /\ strs' = IF applied
                  THEN Set(keyEnabled(Host(p), Path(p)), CachedFlag)
                  ELSE strs
       /\ Wrote(p, keyEnabled(Host(p), Path(p)), applied)
  /\ AfterAutoEnabled(p, TRUE, "")
  /\ UNCHANGED <<now, akismetKey, body, history,
                 autoEnable, zsets, hashes, r, id, wake,
                 approved, ids, comments, posted>>

\* commentHandler treating a failed approval as a failed submission
AfterAutoApprove_Fatal(p, a, er) ==
  /\ approved' = [approved EXCEPT ![p] = a]
  /\ err' = [err EXCEPT ![p] = er]
  /\ IF er # "" THEN Respond(p, StatusInternalServerError, "backend error")
     ELSE Respond(p, StatusFound, "")

\* commentHandler after autoApproveComment returned (a, er)
AfterAutoApprove(p, a, er) ==
  /\ approved' = [approved EXCEPT ![p] = a]
  /\ err' = [err EXCEPT ![p] = er]
  /\ Respond(p, StatusFound, "")

\* autoApproveComment without its test for an empty akismetKey
AfterSaveComment_NoKeyCheck(p, er) ==
  IF er # ""
  THEN /\ err' = [err EXCEPT ![p] = er]
       /\ Respond(p, StatusInternalServerError, "backend error")
       /\ UNCHANGED approved
  ELSE Goto(p, "autoApproveComment_HGETALL") /\ UNCHANGED <<approved, err>>

\* commentHandler going on to autoApproveComment although saveComment failed
AfterSaveComment_NoErrCheck(p, er) ==
  IF akismetKey = <<>>
  THEN AfterAutoApprove(p, FALSE, "")
  ELSE Goto(p, "autoApproveComment_HGETALL") /\ UNCHANGED <<approved, err>>

\* commentHandler after saveComment returned (id, er), into
\* autoApproveComment's credential test
AfterSaveComment(p, er) ==
  IF er # ""
  THEN /\ err' = [err EXCEPT ![p] = er]
       /\ Respond(p, StatusInternalServerError, "backend error")
       /\ UNCHANGED approved
  ELSE IF akismetKey = <<>>
  THEN AfterAutoApprove(p, FALSE, "")
  ELSE Goto(p, "autoApproveComment_HGETALL") /\ UNCHANGED <<approved, err>>

\* saveComment with the clock read once, before the loop
SaveCommentNow_SampleOnce(p) ==
  /\ pc[p] = "saveComment_Now"
  /\ now >= wake[p]
  /\ id' = [id EXCEPT ![p] = IF retries[p] = 0 THEN now ELSE @]
  /\ seen' = [seen EXCEPT ![p] =
                { ParseInt(e[2]) : e \in ZMembers(zsets, keyAll(Host(p), Path(p))) }]
  /\ Goto(p, "saveComment_ZADD")
  /\ UNCHANGED <<now, akismetKey, body, inserted, retries, store, r, en, wake,
                 approved, err, ids, comments, writes, posted>>

\* saveComment: id = time.Now().Unix(), once a pending time.Sleep is over
SaveCommentNow(p) ==
  /\ pc[p] = "saveComment_Now"
  /\ now >= wake[p]
  /\ id' = [id EXCEPT ![p] = now]
  /\ seen' = [seen EXCEPT ![p] =
                { ParseInt(e[2]) : e \in ZMembers(zsets, keyAll(Host(p), Path(p))) }]
  /\ Goto(p, "saveComment_ZADD")
  /\ UNCHANGED <<now, akismetKey, body, inserted, retries,
                 store, r, en, wake, approved, err, ids,
                 comments, writes, posted>>

\* saveComment without its retry: the candidate is kept whatever ZADD replied
SaveCommentAdded_NoRetry(p, added) ==
  Goto(p, "saveComment_HMSET") /\ UNCHANGED <<wake, retries>>

\* saveComment after ZADD replied added: write the record, or sleep and retry
SaveCommentAdded(p, added) ==
  IF added
  THEN Goto(p, "saveComment_HMSET") /\ UNCHANGED <<wake, retries>>
  ELSE /\ Goto(p, "saveComment_Now")
       /\ wake' = [wake EXCEPT ![p] = now + 1]
       /\ retries' = [retries EXCEPT ![p] = @ + 1]

\* saveComment: ZADD of the candidate into the thread's :all set; the
\* command is applied ("ok") or fails with an error reply ("err")
SaveCommentZAdd(p) ==
  /\ pc[p] = "saveComment_ZADD"
  /\ LET key == keyAll(Host(p), Path(p))
         member == FormatInt(id[p])
     IN \E o \in {"ok", "err"} :
          /\ zsets' = IF o = "err" THEN zsets ELSE ZAdd(key, id[p], member)
          /\ Wrote(p, key, o # "err")
          /\ Inserted(key, member, o = "ok" /\ ZAddReply(key, id[p], member).v = 1)
          /\ IF o = "ok"
             THEN /\ SaveCommentAdded(p, RedisBool(ZAddReply(key, id[p], member)).val)
                  /\ UNCHANGED <<approved, err>>
             ELSE /\ AfterSaveComment(p, "ZADD all failed")
                  /\ UNCHANGED <<wake, retries>>
  /\ UNCHANGED <<now, akismetKey, body, seen,
                 autoEnable, strs, hashes, r, en, id, ids,
                 comments, posted>>

\* saveComment: HMSET of the record
SaveCommentHMSet(p) ==
  /\ pc[p] = "saveComment_HMSET"
  /\ LET key == keyComment(Host(p), Path(p), id[p])
     IN \E o \in {"ok", "err"} :
          /\ hashes' = IF o = "err" THEN hashes ELSE HMSet(key, AddFlat(Req(p)))
          /\ Wrote(p, key, o # "err")
          /\ AfterSaveComment(p, IF o = "ok" THEN "" ELSE "HMSET failed")
  /\ UNCHANGED <<now, akismetKey, body, history,
                 autoEnable, strs, zsets, r, en, id, wake,
                 ids, comments, posted>>

(***************************************************************************)
(* autoApproveComment.                                                     *)
(***************************************************************************)
\* what ioutil.ReadAll can give: an error, or the body Akismet sent
Bodies ==
  { <<"t", "r", "u", "e">>, <<"f", "a", "l", "s", "e">>,
    <<"i", "n", "v", "a", "l", "i", "d">> }
Verdicts ==
  { [err |-> "read error", body |-> <<>>] }
  \cup { [err |-> "", body |-> b] : b \in Bodies }

\* autoApproveComment: HGETALL of the record just written
AutoApproveHGetAll(p) ==
  /\ pc[p] = "autoApproveComment_HGETALL"
  /\ \E ok \in BOOLEAN :
       IF ok
       THEN Goto(p, "autoApproveComment_PostForm") /\ UNCHANGED <<approved, err>>
       ELSE AfterAutoApprove(p, FALSE, "HGETALL failed")
  /\ UNCHANGED <<now, akismetKey, body, history,
                 store, r, en, id, wake, ids, comments,
                 writes, posted>>

\* autoApproveComment with the test of the verdict the wrong way round
Verdict_Inverted(v) ==
  IF v.err # "" THEN [done |-> TRUE, err |-> v.err]
  ELSE LET isSpam == ParseBool(v.body)
       IN IF isSpam.err
          THEN [done |-> TRUE, err |-> "unexpected return value from akismet"]
          ELSE IF isSpam.val THEN [done |-> FALSE, err |-> ""]
          ELSE [done |-> TRUE, err |-> ""]

\* autoApproveComment after the verdict was read: [done, err], done when it
\* returns (false, err) without touching the :approved set
Verdict(v) ==
  IF v.err # "" THEN [done |-> TRUE, err |-> v.err]
  ELSE LET isSpam == ParseBool(v.body)
       IN IF isSpam.err
          THEN [done |-> TRUE, err |-> "unexpected return value from akismet"]
          ELSE IF isSpam.val THEN [done |-> TRUE, err |-> ""]
          ELSE [done |-> FALSE, err |-> ""]

\* autoApproveComment: the form POST to Akismet, answered or failed
AutoApprovePostForm(p) ==
  /\ pc[p] = "autoApproveComment_PostForm"
  /\ posted' = posted \cup {p}
  /\ \E ok \in BOOLEAN :
       IF ok
       THEN Goto(p, "autoApproveComment_ReadAll") /\ UNCHANGED <<approved, err>>
       ELSE AfterAutoApprove(p, FALSE, "post error")
  /\ UNCHANGED <<now, akismetKey, body, history, store, r, en, id, wake, ids,
                 comments, writes>>

\* autoApproveComment: the reading of the answer's body, and the verdict
AutoApproveReadAll(p) ==
  /\ pc[p] = "autoApproveComment_ReadAll"
  /\ \E v \in Verdicts :
       /\ body' = [body EXCEPT ![p] = v.body]
       /\ IF Verdict(v).done
          THEN AfterAutoApprove(p, FALSE, Verdict(v).err)
          ELSE Goto(p, "autoApproveComment_ZADD") /\ UNCHANGED <<approved, err>>
  /\ UNCHANGED <<now, akismetKey, history, store, r, en, id, wake, ids, comments,
                 writes, posted>>

\* autoApproveComment: ZADD of the id into the thread's :approved set
AutoApproveZAdd(p) ==
  /\ pc[p] = "autoApproveComment_ZADD"
  /\ LET key == keyApproved(Host(p), Path(p))
         member == FormatInt(id[p])
     IN \E o \in {"ok", "err"} :
          /\ zsets' = IF o = "err" THEN zsets ELSE ZAdd(key, id[p], member)
          /\ Wrote(p, key, o # "err")
          /\ Inserted(key, member, o = "ok" /\ ZAddReply(key, id[p], member).v = 1)
          /\ IF o = "ok"
             THEN AfterAutoApprove(p, RedisBool(ZAddReply(key, id[p], member)).val, "")
             ELSE AfterAutoApprove(p, FALSE, "ZADD approved failed")
  /\ UNCHANGED <<now, akismetKey, body, seen,
                 retries, autoEnable, strs, hashes, r,
                 en, id, wake,
                 ids, comments, posted>>

(***************************************************************************)
(* getComments.                                                            *)
(***************************************************************************)
\* getComments: ZRANGEBYSCORE of the thread's :approved set
GetCommentsRange(p) ==
  /\ pc[p] = "getComments_ZRANGEBYSCORE"
  /\ \E ok \in BOOLEAN :
       IF ~ok
       THEN /\ Respond(p, StatusInternalServerError, "backend error")
            /\ err' = [err EXCEPT ![p] = "ZRANGEBYSCORE failed"]
            /\ UNCHANGED <<ids, comments>>
       ELSE LET got == ZRangeByScore(keyApproved(Host(p), Path(p)), PageSize)
            IN /\ ids' = [ids EXCEPT ![p] = got]
               /\ comments' = [comments EXCEPT ![p] = <<>>]
               /\ UNCHANGED err
               /\ IF got = <<>> THEN Respond(p, StatusOK, "")
                  ELSE Goto(p, "getComments_HGETALL")
  /\ UNCHANGED <<now, akismetKey, body, history,
                 store, r, en, id, wake, approved, writes,
                 posted>>

\* getComments: one turn of the loop, the HGETALL of the next id
GetCommentsHGetAll(p) ==
  /\ pc[p] = "getComments_HGETALL"
  /\ \E ok \in BOOLEAN :
       IF ~ok
       THEN /\ Respond(p, StatusInternalServerError, "backend error")
            /\ err' = [err EXCEPT ![p] = "HGETALL failed"]
            /\ ids' = [ids EXCEPT ![p] = <<>>]
            /\ comments' = [comments EXCEPT ![p] = <<>>]
       ELSE LET member == Head(ids[p])
                intid == ParseInt(member)
                vals == HGetAll(keyComment(Host(p), Path(p), intid))
                cs == Append(comments[p], Comment(member, vals))
            IN /\ ids' = [ids EXCEPT ![p] = Tail(@)]
               /\ comments' = [comments EXCEPT ![p] = cs]
               /\ UNCHANGED err
               /\ IF Tail(ids[p]) = <<>> THEN Respond(p, StatusOK, "")
                  ELSE Goto(p, "getComments_HGETALL")
  /\ UNCHANGED <<now, akismetKey, body, history,
                 store, r, en, id, wake, approved, writes,
                 posted>>

(***************************************************************************)
(* The clock, the initial states and the specification.                    *)
(***************************************************************************)
Tick ==
  /\ now < MaxClock
  /\ now' = now + 1
  /\ UNCHANGED <<akismetKey, store, locals, writes, posted, history>>

\* the threads submissions can address, as <<host, path>>
Threads ==
  { <<Parse(u).Host, Parse(u).Path>> :
      u \in {v \in URLs : ~Parse(v).err /\ Parse(v).Host # <<>>} }
AllowLists == { { <<"a">> } }
FlagValues == { <<"t", "r", "u", "e">>, <<"f", "a", "l", "s", "e">> }
FlagKeys == { keyEnabled(t[1], t[2]) : t \in Threads }

InitLocals ==
  /\ pc = [p \in Handlers |-> "idle"]
  /\ r = [p \in Handlers |-> NoRequest]
  /\ en = [p \in Handlers |-> FALSE]
  /\ id = [p \in Handlers |-> 0]
  /\ wake = [p \in Handlers |-> 0]
  /\ approved = [p \in Handlers |-> FALSE]
  /\ err = [p \in Handlers |-> ""]
  /\ body = [p \in Handlers |-> <<>>]
  /\ ids = [p \in Handlers |-> <<>>]
  /\ comments = [p \in Handlers |-> <<>>]
  /\ resp = [p \in Handlers |-> NoResponse]
  /\ writes = [p \in Handlers |-> {}]
  /\ posted = {}
  /\ inserted = <<>>
  /\ seen = [p \in Handlers |-> {}]
  /\ retries = [p \in Handlers |-> 0]

\* a store that holds no comment yet; the flags, the allow-list and the
\* Akismet key are the deployment's configuration
Init ==
  /\ now = 1
  /\ akismetKey \in { <<>>, <<"k">> }
  /\ autoEnable \in AllowLists
  /\ \E ks \in SUBSET FlagKeys : strs \in [ks -> FlagValues]
  /\ zsets = <<>>
  /\ hashes = <<>>
  /\ InitLocals

Step(p) ==
  \/ RequestGet(p)
  \/ RequestPost(p)
  \/ RequestOther(p)
  \/ AutoEnabledGet(p)
  \/ AutoEnabledSIsMember(p)
  \/ AutoEnabledSet(p)
  \/ SaveCommentNow(p)
  \/ SaveCommentZAdd(p)
  \/ SaveCommentHMSet(p)
  \/ AutoApproveHGetAll(p)
  \/ AutoApprovePostForm(p)
  \/ AutoApproveReadAll(p)
  \/ AutoApproveZAdd(p)
  \/ GetCommentsRange(p)
  \/ GetCommentsHGetAll(p)

Next == Tick \/ \E p \in Handlers : Step(p)

Spec == Init /\ [][Next]_vars

(***************************************************************************)
(* Reads of a store that already holds comments.  The store is shared and  *)
(* outlives the process: what getComments finds in it is its input.  The   *)
(* thread h://a/b holds the identifiers of a set drawn from                *)
(* 1..MaxStoreId, all approved, and the record of at most one of them is   *)
(* gone.                                                                   *)
(***************************************************************************)
StoredThread == << <<"a">>, <<"/", "b">> >>

\* the record a submission of Author and Content left
StoredRecord ==
  AddFlat(cleanCommentSubmitRequest(Form("POST", UrlAB, Author, Content, <<>>)).req)

\* few identifiers, or enough to fill a page and more
StoredIdSets ==
  { S \in SUBSET (1..MaxStoreId) :
      Cardinality(S) <= 2 \/ Cardinality(S) >= MaxStoreId - 1 }

InitList ==
  /\ now = 1
  /\ akismetKey = <<"k">>
  /\ autoEnable \in AllowLists
  /\ strs = <<>>
  /\ \E S \in StoredIdSets :
       \E gone \in {G \in SUBSET S : Cardinality(G) <= 1} :
         /\ zsets = IF S = {} THEN <<>>
                    ELSE [ k \in { keyAll(StoredThread[1], StoredThread[2]),
                                   keyApproved(StoredThread[1], StoredThread[2]) }
                             |-> { <<n, FormatInt(n)>> : n \in S } ]
         /\ hashes = [ k \in { keyComment(StoredThread[1], StoredThread[2], n) :
                                 n \in S \ gone } |-> StoredRecord ]
  /\ InitLocals

NextList ==
  \E p \in {1} :
    \/ RequestGet(p)
    \/ GetCommentsRange(p)
    \/ GetCommentsHGetAll(p)

SpecList == InitList /\ [][NextList]_vars

(***************************************************************************)
(* The spec's vocabulary in terms of the store.                            *)
(***************************************************************************)
\* the thread a handler's request addresses
Thread(p) == <<Host(p), Path(p)>>

\* the identifiers in a thread's :all and :approved sets
AllIndex(t) == { ParseInt(e[2]) : e \in ZMembers(zsets, keyAll(t[1], t[2])) }
ApprovedIndex(t) ==
  { ParseInt(e[2]) : e \in ZMembers(zsets, keyApproved(t[1], t[2])) }

\* whether the comment record of (t, n) exists
HasRecord(t, n) == keyComment(t[1], t[2], n) \in DOMAIN hashes

\* the handler serves a POST that passed cleanCommentSubmitRequest
Submission(p) ==
  /\ pc[p] # "idle"
  /\ r[p].method = "POST"
  /\ cleanCommentSubmitRequest(r[p]).err = ""

\* the handler has answered with the call that status and msg stand for
\* (http.Error, json.Encode or http.Redirect), after its check of
\* r.ParseForm
Answered(p, status, msg) ==
  pc[p] = "done" /\ resp[p] = Write(ParseFormChecked(r[p]), status, msg)

\* the handler is inside autoApproveComment, past the credential test
Classifying(p) ==
  pc[p] \in { "autoApproveComment_HGETALL", "autoApproveComment_PostForm",
              "autoApproveComment_ReadAll", "autoApproveComment_ZADD" }

\* the errors saveComment returns
SaveErrors == {"ZADD all failed", "HMSET failed"}

\* the handler has returned from its last line, the redirect: autoEnabled
\* gave true and saveComment no error
Completed(p) ==
  pc[p] = "done" /\ en[p] /\ err[p] \notin SaveErrors /\ Submission(p)

\* saveComment has returned id[p] with a nil error to the handler
Allocated(p) == (Classifying(p) \/ Completed(p)) /\ Submission(p)

\* the identifiers the model can allocate
Ids == 1..(MaxClock + 1)

(***************************************************************************)
(* C1.  No two calls of saveComment on the same thread return the same     *)
(* identifier, whatever the interleaving and also when several sample the  *)
(* same second: a call whose ZADD reports "already present" sleeps and     *)
(* retries with a fresh sample.                                            *)
(***************************************************************************)
C1_UniqueIds ==
  \A p, q \in Handlers :
    (p # q /\ Allocated(p) /\ Allocated(q) /\ Thread(p) = Thread(q))
      => id[p] # id[q]

\* two submissions to one thread have both been given an identifier, one of
\* them after a collision and a sleep
C1_Witness ==
  \E p, q \in Handlers :
    /\ p # q /\ Allocated(p) /\ Allocated(q) /\ Thread(p) = Thread(q)
    /\ wake[p] > 0

(***************************************************************************)
(* C2.  In every reachable state ApprovedIndex(thread) is a subset of      *)
(* AllIndex(thread), for every thread.                                     *)
(***************************************************************************)
C2_ApprovedSubsetAll ==
  \A t \in Threads : ApprovedIndex(t) \subseteq AllIndex(t)

\* a comment has been promoted
C2_Witness == \E t \in Threads : ApprovedIndex(t) # {}

(***************************************************************************)
(* C3.  A submission to a thread for which autoEnabled resolves false is   *)
(* rejected, and it adds no identifier to AllIndex(thread), writes no      *)
(* comment record and adds nothing to ApprovedIndex(thread): such a        *)
(* handler has modified no key, and a thread holds an identifier or a      *)
(* record only if some submission to it resolved enabled.                  *)
(***************************************************************************)
\* autoEnabled has returned (false, nil) to the handler
ResolvedDisabled(p) ==
  Submission(p) /\ pc[p] = "done" /\ ~en[p] /\ err[p] = ""

C3_DisabledRejected ==
  /\ \A p \in Handlers :
       ResolvedDisabled(p) =>
         /\ Answered(p, StatusBadRequest, "comments not enabled")
         /\ writes[p] = {}
  /\ \A t \in Threads :
       (\/ AllIndex(t) # {}
        \/ ApprovedIndex(t) # {}
        \/ \E n \in Ids : HasRecord(t, n))
         => \E p \in Handlers : Submission(p) /\ Thread(p) = t /\ en[p]

\* a submission was refused although its host is allow-listed (the thread's
\* flag says false), while another thread took a comment
C3_Witness ==
  \E p \in Handlers :
    /\ ResolvedDisabled(p)
    /\ Host(p) \in autoEnable
    /\ \E t \in Threads : AllIndex(t) # {}

(***************************************************************************)
(* C4.  autoEnabled on a thread whose flag is absent and whose host is in  *)
(* the allow-list returns true, and afterwards the flag is present with    *)
(* value true, so that a later autoEnabled on the thread returns true from *)
(* the flag alone.  A call the store fails on GET or SISMEMBER reports the *)
(* backend error to its caller and is not a case of the claim.             *)
(***************************************************************************)
FlagKey(p) == keyEnabled(Host(p), Path(p))
FlagAbsent(p) == FlagKey(p) \notin DOMAIN strs
FlagTrue(p) == FlagKey(p) \in DOMAIN strs /\ ParseBool(strs[FlagKey(p)]) = [val |-> TRUE, err |-> FALSE]
BackendError(p) ==
  Answered(p, StatusInternalServerError, "backend error") /\ err[p] # ""
ReturnedEnabled(p) ==
  pc[p] = "saveComment_Now" /\ en[p] /\ err[p] = ""

\* the steps of autoEnabled up to its SET, and a call that finds the flag
C4_Resolution(p) ==
  /\ (pc[p] = "autoEnabled_GET" /\ FlagAbsent(p) /\ pc'[p] # pc[p])
       => (pc'[p] = "autoEnabled_SISMEMBER" \/ BackendError(p)')
  /\ (pc[p] = "autoEnabled_SISMEMBER" /\ Host(p) \in autoEnable /\ pc'[p] # pc[p])
       => (pc'[p] = "autoEnabled_SET" \/ BackendError(p)')
  /\ (pc[p] = "autoEnabled_GET" /\ FlagTrue(p) /\ pc'[p] # pc[p])
       => (ReturnedEnabled(p)' \/ BackendError(p)')

\* the claim as stated: the flag is true whenever the fallback has returned
C4_Original ==
  [][\A p \in Handlers :
       /\ C4_Resolution(p)
       /\ (pc[p] = "autoEnabled_SET" /\ pc'[p] # pc[p])
            => (ReturnedEnabled(p)' /\ FlagTrue(p)')]_vars

\* as amended: the flag is true afterwards when the SET was applied; when it
\* was not, the call returns true all the same and the flags are as before
C4_CachedWhenSetApplied ==
  [][\A p \in Handlers :
       /\ C4_Resolution(p)
       /\ (pc[p] = "autoEnabled_SET" /\ pc'[p] # pc[p])
            => /\ ReturnedEnabled(p)'
               /\ IF FlagKey(p) \in writes'[p] THEN FlagTrue(p)'
                  ELSE strs' = strs]_vars

\* one call has cached the flag, and a later call on the same thread was
\* answered by its GET alone
C4_Witness ==
  \E p, q \in Handlers :
    /\ p # q /\ Submission(p) /\ Submission(q) /\ Thread(p) = Thread(q)
    /\ FlagKey(p) \in writes[p] /\ en[p] /\ FlagTrue(p)
    /\ pc[q] = "saveComment_Now" /\ en[q] /\ writes[q] = {}

(***************************************************************************)
(* C5.  A submission with an unparseable url, an empty host, an empty      *)
(* comment_author or an empty comment_content is rejected before any store *)
(* operation is issued: the store is the same before and after the         *)
(* request.                                                                *)
(***************************************************************************)
InvalidInput(form) ==
  \/ Parse(form.url).err
  \/ Parse(form.url).Host = <<>>
  \/ form.comment_author = <<>>
  \/ form.comment_content = <<>>

C5_InvalidRejected ==
  [][\A p \in Handlers :
       (pc[p] = "idle" /\ pc'[p] # "idle" /\ r'[p].method = "POST"
          /\ InvalidInput(r'[p]))
         => /\ pc'[p] = "done"
            /\ resp'[p].status = StatusBadRequest
            /\ store' = store
            /\ writes'[p] = {}]_vars

\* a submission with nothing wrong but its empty content has been rejected
\* while the store holds a comment
C5_Witness ==
  \E p \in Handlers :
    /\ pc[p] = "done" /\ r[p].method = "POST"
    /\ ~Parse(r[p].url).err /\ Parse(r[p].url).Host # <<>>
    /\ r[p].comment_author # <<>> /\ r[p].comment_content = <<>>
    /\ resp[p].status = StatusBadRequest
    /\ \E t \in Threads : AllIndex(t) # {}

(***************************************************************************)
(* C6.  For every valid submission to an enabled thread T that returns     *)
(* identifier id, id is a member of AllIndex(T) immediately after the      *)
(* submission and of no other thread's AllIndex.                           *)
(***************************************************************************)
\* the claim as stated
C6_Original ==
  \A p \in Handlers :
    Allocated(p) =>
      /\ id[p] \in AllIndex(Thread(p))
      /\ \A t \in Threads \ {Thread(p)} : id[p] \notin AllIndex(t)

\* as amended: the submission puts id into AllIndex(T) and modifies no other
\* thread's AllIndex; another thread's AllIndex holds the same number only
\* from a submission of its own
C6_InOwnIndexOnly ==
  \A p \in Handlers :
    Allocated(p) =>
      /\ id[p] \in AllIndex(Thread(p))
      /\ \A t \in Threads \ {Thread(p)} :
           /\ keyAll(t[1], t[2]) \notin writes[p]
           /\ id[p] \in AllIndex(t) =>
                \E q \in Handlers \ {p} :
                  Submission(q) /\ Thread(q) = t /\ id[q] = id[p]

\* submissions to two threads in the same second hold the same identifier
C6_Witness ==
  \E p, q \in Handlers :
    /\ Allocated(p) /\ Allocated(q)
    /\ Thread(p) # Thread(q) /\ id[p] = id[q]

(***************************************************************************)
(* C7.  If classification of a freshly stored comment fails (store error   *)
(* reading the record, classifier network error, non-boolean verdict), the *)
(* submission still completes successfully, the id stays in                *)
(* AllIndex(thread), the record stays stored with the submitted fields,    *)
(* and the id is not in ApprovedIndex(thread).                             *)
(***************************************************************************)
ClassificationErrors ==
  { "HGETALL failed", "post error", "read error",
    "unexpected return value from akismet" }

ClassificationFailed(p) ==
  Submission(p) /\ pc[p] = "done" /\ err[p] \in ClassificationErrors

C7_ClassifyFailureKeepsComment ==
  \A p \in Handlers :
    ClassificationFailed(p) =>
      /\ Answered(p, StatusFound, "")
      /\ ~approved[p]
      /\ id[p] \in AllIndex(Thread(p))
      /\ HasRecord(Thread(p), id[p])
      /\ HGetAll(keyComment(Host(p), Path(p), id[p])) = AddFlat(Req(p))
      /\ id[p] \notin ApprovedIndex(Thread(p))

\* a submission whose verdict was not a boolean has completed, next to one
\* of the same thread that was promoted
C7_Witness ==
  \E p, q \in Handlers :
    /\ ClassificationFailed(p)
    /\ err[p] = "unexpected return value from akismet"
    /\ Thread(q) = Thread(p) /\ Allocated(q) /\ approved[q]

(***************************************************************************)
(* C8.  With no Akismet key configured, autoApproveComment returns false   *)
(* without contacting the classifier and without modifying ApprovedIndex:  *)
(* after any submissions ApprovedIndex of every thread is as it was (the   *)
(* store starts without comments: empty) and List shows no comment.        *)
(***************************************************************************)
C8_NoKeyNoApproval ==
  akismetKey = <<>> =>
    /\ posted = {}
    /\ \A p \in Handlers :
         /\ ~approved[p]
         /\ ~Classifying(p)
         /\ keyApproved(Host(p), Path(p)) \notin writes[p]
         /\ comments[p] = <<>>
    /\ \A t \in Threads : ApprovedIndex(t) = {}

\* without a key, a submission has completed and a List of its thread has
\* been answered
C8_Witness ==
  /\ akismetKey = <<>>
  /\ \E p, q \in Handlers :
       /\ Allocated(p) /\ pc[p] = "done"
       /\ r[q].method = "GET" /\ Thread(q) = Thread(p)
       /\ Answered(q, StatusOK, "")

(***************************************************************************)
(* C9.  getComments on a thread returns exactly the comments of the        *)
(* min(10, |ApprovedIndex(thread)|) smallest identifiers of                *)
(* ApprovedIndex(thread), in strictly ascending identifier order, and      *)
(* never a comment whose id is not in ApprovedIndex(thread); when          *)
(* ApprovedIndex(thread) is empty it returns an empty sequence and no      *)
(* error.  (A call the store fails on returns that error; the store does   *)
(* not change during these reads.)                                         *)
(***************************************************************************)
\* the handler has answered a GET whose url parsed
Listed(p) == r[p].method = "GET" /\ ~Parse(r[p].url).err /\ pc[p] = "done"

\* the identifiers List is to return: those with fewer than PageSize
\* smaller ones in the index
FirstPage(A) == { n \in A : Cardinality({ m \in A : m < n }) < PageSize }

\* the comment a stored record is to be listed as
Listing(t, n) ==
  LET rec == HGetAll(keyComment(t[1], t[2], n))
  IN [ ID |-> FormatInt(n),
       Author |-> EscapeString(rec["comment_author"]),
       Content |-> EscapeString(rec["comment_content"]) ]

C9_ListFirstPageAscending ==
  \A p \in Handlers :
    Listed(p) =>
      LET A == ApprovedIndex(Thread(p))
          cs == comments[p]
          got(i) == ParseInt(cs[i].ID)
      IN IF err[p] # ""
         THEN Answered(p, StatusInternalServerError, "backend error")
         ELSE /\ Answered(p, StatusOK, "")
              /\ { got(i) : i \in 1..Len(cs) } = FirstPage(A)
              /\ \A i, j \in 1..Len(cs) : i < j => got(i) < got(j)
              /\ \A i \in 1..Len(cs) :
                   HasRecord(Thread(p), got(i)) => cs[i] = Listing(Thread(p), got(i))
              /\ A = {} => cs = <<>>

\* a full page was returned from an index that holds more, every entry
\* with its record
C9_Witness ==
  \E p \in Handlers :
    /\ Listed(p) /\ err[p] = ""
    /\ Len(comments[p]) = PageSize
    /\ Cardinality(ApprovedIndex(Thread(p))) > PageSize
    /\ \A i \in 1..Len(comments[p]) : HasRecord(Thread(p), ParseInt(comments[p][i].ID))

(***************************************************************************)
(* C10.  If ApprovedIndex(thread) contains an identifier whose comment     *)
(* record is missing from the store, getComments fails with an error; it   *)
(* neither skips the entry nor returns a result with an entry for it.      *)
(* (Stated for an identifier of the page getComments reads.)               *)
(***************************************************************************)
C10_MissingRecordFails ==
  \A p \in Handlers :
    (/\ Listed(p)
     /\ \E n \in FirstPage(ApprovedIndex(Thread(p))) : ~HasRecord(Thread(p), n))
      => Answered(p, StatusInternalServerError, "backend error")

(***************************************************************************)
(* C11.  Every thread operation, the read (GET) and the write (POST),      *)
(* fails with a missing-host error when the supplied url has an empty      *)
(* authority, and performs no store operation on a thread whose host is    *)
(* empty: a handler serving such a request issues no store call and        *)
(* answers 400.                                                            *)
(***************************************************************************)
\* the request's url parses and has no authority
EmptyAuthority(form) == ~Parse(form.url).err /\ Parse(form.url).Host = <<>>

C11_MissingHostFails ==
  \A p \in Handlers :
    (r[p].method \in {"GET", "POST"} /\ EmptyAuthority(r[p]))
      => /\ pc[p] \in {"idle", "done"}
         /\ pc[p] = "done" => resp[p].status = StatusBadRequest


(***************************************************************************)
(* C12.  For every comment that is stored and promoted into ApprovedIndex, *)
(* the author and content returned by List are the HTML-escaped forms of   *)
(* the submitted author and content (each of < > & ' " replaced by its     *)
(* entity), so that no raw HTML-special character of the submission        *)
(* appears in List's output, and the id returned is the comment's          *)
(* identifier.  Stated by the inverse: the entities read back give the     *)
(* submitted text, and outside entities no special character is left.      *)
(***************************************************************************)
\* the entities html.EscapeString writes, by the character each stands for
Entities ==
  { << "&", <<"&", "a", "m", "p", ";">> >>,
    << "'", <<"&", "#", "3", "9", ";">> >>,
    << "<", <<"&", "l", "t", ";">> >>,
    << ">", <<"&", "g", "t", ";">> >>,
    << "\"", <<"&", "#", "3", "4", ";">> >> }

\* the text a browser shows for s; a special character outside an entity
\* of Entities is reported as "RAW"
RECURSIVE Unescape(_)
Unescape(s) ==
  IF s = <<>> THEN <<>>
  ELSE IF \E x \in Entities : HasPrefix(s, x[2])
  THEN LET x == CHOOSE y \in Entities : HasPrefix(s, y[2])
       IN <<x[1]>> \o Unescape(From(s, Len(x[2]) + 1))
  ELSE IF Head(s) \in { x[1] : x \in Entities }
  THEN <<"RAW">> \o Unescape(Tail(s))
  ELSE <<Head(s)>> \o Unescape(Tail(s))

\* the handlers whose submission was given the identifier an entry of q's
\* listing carries, in the thread whose keys q read
SubmittersOf(q, entry) ==
  { p \in Handlers :
      /\ Allocated(p)
      /\ keyApproved(Host(p), Path(p)) = keyApproved(Host(q), Path(q))
      /\ FormatInt(id[p]) = entry.ID }

C12_ListEscapes ==
  \A q \in Handlers :
    (Listed(q) /\ err[q] = "") =>
      \A i \in 1..Len(comments[q]) :
        LET entry == comments[q][i]
        IN /\ SubmittersOf(q, entry) # {}
           /\ \A p \in SubmittersOf(q, entry) :
                /\ Unescape(entry.Author) = r[p].comment_author
                /\ Unescape(entry.Content) = r[p].comment_content
                /\ ParseInt(entry.ID) = id[p]

\* a promoted comment whose author and content hold all five special
\* characters has been listed
C12_Witness ==
  \E q, p \in Handlers :
    /\ Listed(q) /\ err[q] = "" /\ Len(comments[q]) > 0
    /\ p \in SubmittersOf(q, comments[q][1]) /\ approved[p]
    /\ { x[1] : x \in Entities }
         \subseteq { r[p].comment_author[i] : i \in 1..Len(r[p].comment_author) }
                   \cup { r[p].comment_content[i] : i \in 1..Len(r[p].comment_content) }


(***************************************************************************)
(* Enablement resolution next to explicit writes of the flags.  The        *)
(* :enabled keys are set outside the handler (the schema gives them a      *)
(* value, the handler only ever caches "true"): a write of a flag by the   *)
(* site's operator is a step of the shared store.  Submissions are         *)
(* followed up to autoEnabled's return.                                    *)
(***************************************************************************)
\* SET of a thread's :enabled key to a value of the schema, by the operator
OperatorSetFlag ==
  /\ \E key \in FlagKeys, value \in FlagValues : strs' = Set(key, value)
  /\ UNCHANGED <<now, akismetKey, autoEnable, zsets, hashes, locals, writes,
                 posted, history>>

InitFlag ==
  /\ now = 1
  /\ akismetKey = <<>>
  /\ autoEnable \in AllowLists
  /\ strs = <<>>
  /\ zsets = <<>>
  /\ hashes = <<>>
  /\ InitLocals

NextFlag ==
  \/ OperatorSetFlag
  \/ \E p \in Handlers :
       \/ RequestPost(p)
       \/ AutoEnabledGet(p)
       \/ AutoEnabledSIsMember(p)
       \/ AutoEnabledSet(p)

SpecFlag == InitFlag /\ [][NextFlag]_vars

(***************************************************************************)
(* C13.  The caching write of autoEnabled is safe to race with other       *)
(* autoEnabled calls on the thread and with an explicit write of the       *)
(* thread's flag: it only ever sets the flag to the value it already has   *)
(* or sets an absent flag, and never overwrites a flag that was explicitly *)
(* set to false between the resolver's read and its write.                 *)
(***************************************************************************)
C13_CachingWriteSafeToRace ==
  [][\A p \in Handlers :
       (pc[p] = "autoEnabled_SET" /\ pc'[p] # pc[p] /\ ~FlagAbsent(p))
         => strs'[FlagKey(p)] = strs[FlagKey(p)]]_vars


(***************************************************************************)
(* C14.  Within one thread, the order in which identifiers are inserted    *)
(* into AllIndex equals their numeric order: for any two submissions to    *)
(* the same thread, under any interleaving of clock sampling and the add   *)
(* to AllIndex, the identifier inserted earlier is smaller than the        *)
(* identifier inserted later.                                              *)
(***************************************************************************)
\* the members the handlers have added to a key, in the order of the adds
InsertionOrder(key) == IF key \in DOMAIN inserted THEN inserted[key] ELSE <<>>

\* the claim as stated
C14_Original ==
  \A t \in Threads :
    LET order == InsertionOrder(keyAll(t[1], t[2]))
    IN \A i, j \in 1..Len(order) :
         i < j => ParseInt(order[i]) < ParseInt(order[j])

\* saveComment's ZADD has newly added id[p] to the thread's :all set
InsertedOwn(p) ==
  /\ Submission(p)
  /\ \/ pc[p] = "saveComment_HMSET"
     \/ Allocated(p)
     \/ pc[p] = "done" /\ err[p] = "HMSET failed"

\* as amended: an identifier is larger than every identifier its thread's
\* AllIndex held already when its submission sampled the clock for it; the
\* adds of a sample taken earlier and of one taken later can land in
\* either order
C14_LargerThanSeenAtSample ==
  \A p \in Handlers :
    InsertedOwn(p) =>
      /\ FormatInt(id[p]) \in
           { InsertionOrder(keyAll(Host(p), Path(p)))[i] :
               i \in 1..Len(InsertionOrder(keyAll(Host(p), Path(p)))) }
      /\ \A m \in seen[p] : m < id[p]

\* a submission sampled the clock after another's add to the same thread,
\* met its identifier, slept, and has added a larger one
C14_Witness ==
  \E p, q \in Handlers :
    /\ p # q /\ InsertedOwn(p) /\ InsertedOwn(q) /\ Thread(p) = Thread(q)
    /\ id[q] \in seen[p] /\ wake[p] > 0


(***************************************************************************)
(* C15.  The order of identifiers in ApprovedIndex(thread), as returned by *)
(* List, matches the order in which the comments were promoted by          *)
(* Classify, also when two comments of the same thread are promoted in the *)
(* opposite order to their submission.                                     *)
(***************************************************************************)
\* the identifiers List reads from a thread's :approved set, in its order
ListOrder(t) == ZRangeByScore(keyApproved(t[1], t[2]), PageSize)

\* the members promoted into a thread's :approved set, in promotion order
PromotionOrder(t) == InsertionOrder(keyApproved(t[1], t[2]))

\* the claim as stated
C15_Original ==
  \A t \in Threads :
    ListOrder(t) =
      SubSeq(PromotionOrder(t), 1,
             IF Len(PromotionOrder(t)) < PageSize THEN Len(PromotionOrder(t))
             ELSE PageSize)

\* as amended: List returns the promoted identifiers in ascending numeric
\* order, whatever the order of their promotion
C15_ListedByIdentifier ==
  \A t \in Threads :
    /\ \A i, j \in 1..Len(ListOrder(t)) :
         i < j => ParseInt(ListOrder(t)[i]) < ParseInt(ListOrder(t)[j])
    /\ Len(PromotionOrder(t)) <= PageSize =>
         { ListOrder(t)[i] : i \in 1..Len(ListOrder(t)) }
           = { PromotionOrder(t)[i] : i \in 1..Len(PromotionOrder(t)) }

\* two comments of a thread were promoted, the one with the larger
\* identifier first
C15_Witness ==
  \E t \in Threads :
    /\ Len(PromotionOrder(t)) = 2
    /\ ParseInt(PromotionOrder(t)[1]) > ParseInt(PromotionOrder(t)[2])


(***************************************************************************)
(* C16.  In every reachable state and under any interleaving of            *)
(* submissions, every identifier in ApprovedIndex(thread) has a stored     *)
(* comment record at (thread, id): promotion is attempted only after the   *)
(* record write of the same submission has succeeded, so a concurrent List *)
(* never observes an approved id without its record.                       *)
(***************************************************************************)
C16_ApprovedHaveRecords ==
  /\ \A t \in Threads : \A n \in ApprovedIndex(t) : HasRecord(t, n)
  /\ \A p \in Handlers :
       Classifying(p) =>
         /\ keyComment(Host(p), Path(p), id[p]) \in writes[p]
         /\ HGetAll(keyComment(Host(p), Path(p), id[p])) = AddFlat(Req(p))
  /\ \A q \in Handlers :
       r[q].method = "GET" =>
         /\ \A i \in 1..Len(ids[q]) :
              keyComment(Host(q), Path(q), ParseInt(ids[q][i])) \in DOMAIN hashes
         /\ \A i \in 1..Len(comments[q]) :
              comments[q][i].Author # <<>> /\ comments[q][i].Content # <<>>

\* a List has read from the index the identifier a submission has just
\* promoted and is about to fetch its record
C16_Witness ==
  \E q, p \in Handlers :
    /\ pc[q] = "getComments_HGETALL" /\ ids[q] # <<>>
    /\ Submission(p) /\ approved[p]
    /\ keyApproved(Host(p), Path(p)) = keyApproved(Host(q), Path(q))
    /\ Head(ids[q]) = FormatInt(id[p])


(***************************************************************************)
(* C17.  A comment record is created once and never mutated: for every     *)
(* (thread, id), across any interleaving of concurrent submissions, at     *)
(* most one submission writes the record at (thread, id), and once written *)
(* its fields never change and it is never deleted.                        *)
(***************************************************************************)
\* the keys of the comment records of the threads
RecordKeys == { keyComment(t[1], t[2], n) : t \in Threads, n \in Ids }

C17_RecordWrittenOnce ==
  [][/\ \A k \in DOMAIN hashes :
          k \in DOMAIN hashes' /\ hashes'[k] = hashes[k]
     /\ DOMAIN hashes' \subseteq RecordKeys
     /\ \A p, q \in Handlers :
          p # q => writes'[p] \cap writes'[q] \cap RecordKeys = {}]_vars

\* two submissions to one thread have each written their record
C17_Witness ==
  \E p, q \in Handlers :
    /\ p # q /\ Submission(p) /\ Submission(q) /\ Thread(p) = Thread(q)
    /\ keyComment(Host(p), Path(p), id[p]) \in writes[p]
    /\ keyComment(Host(q), Path(q), id[q]) \in writes[q]


(***************************************************************************)
(* C18.  autoApproveComment with a configured credential modifies          *)
(* ApprovedIndex(thread) only when the classifier's verdict is "not spam": *)
(* then id is in ApprovedIndex(thread) afterwards and the returned bool is *)
(* true exactly when id was newly inserted; on a "spam" verdict it returns *)
(* false with ApprovedIndex unchanged; on a non-boolean response body it   *)
(* returns an error with ApprovedIndex unchanged.  (A call on which the    *)
(* store fails the ZADD returns that error and false, ApprovedIndex        *)
(* unchanged.)                                                             *)
(***************************************************************************)
\* autoApproveComment has read Akismet's answer into body
VerdictRead(p) ==
  /\ Submission(p) /\ p \in posted
  /\ pc[p] \in {"autoApproveComment_ZADD", "done"}
  /\ err[p] \notin {"post error", "read error"}

\* the member of id[p] was newly added to the thread's :approved set
NewlyPromoted(p) ==
  \E i \in 1..Len(PromotionOrder(Thread(p))) :
    PromotionOrder(Thread(p))[i] = FormatInt(id[p])

C18_VerdictDecidesPromotion ==
  \A p \in Handlers :
    LET key == keyApproved(Host(p), Path(p))
        promoted == id[p] \in ApprovedIndex(Thread(p))
    IN /\ (Submission(p) /\ key \in writes[p])
            => (VerdictRead(p) /\ body[p] \in FalseLiterals)
       /\ VerdictRead(p) =>
            /\ akismetKey # <<>>
            /\ IF body[p] \in FalseLiterals
               THEN \/ /\ pc[p] = "autoApproveComment_ZADD"
                       /\ ~promoted /\ key \notin writes[p]
                    \/ /\ pc[p] = "done" /\ err[p] = ""
                       /\ promoted /\ key \in writes[p]
                       /\ approved[p] <=> NewlyPromoted(p)
                    \/ /\ pc[p] = "done" /\ err[p] = "ZADD approved failed"
                       /\ ~approved[p] /\ ~promoted /\ key \notin writes[p]
               ELSE /\ pc[p] = "done"
                    /\ ~approved[p] /\ ~promoted /\ key \notin writes[p]
                    /\ IF body[p] \in TrueLiterals THEN err[p] = ""
                       ELSE err[p] = "unexpected return value from akismet"

\* one comment was promoted on the verdict false, returning true, and
\* another of the same thread was held back on the verdict true
C18_Witness ==
  \E p, q \in Handlers :
    /\ VerdictRead(p) /\ pc[p] = "done" /\ body[p] \in FalseLiterals
    /\ approved[p] /\ id[p] \in ApprovedIndex(Thread(p))
    /\ VerdictRead(q) /\ pc[q] = "done" /\ body[q] \in TrueLiterals
    /\ Thread(q) = Thread(p)


(***************************************************************************)
(* C19.  autoEnabled returns the value of EnablementFlag(thread) whenever  *)
(* the flag is present, regardless of AutoEnableSet membership (a present  *)
(* false flag yields false even for an allow-listed host), and writes      *)
(* nothing in that case; when the flag is absent and the host is not in    *)
(* AutoEnableSet it returns false and leaves the flag absent.  autoEnabled *)
(* never persists a false flag.  (A call the store fails on GET or         *)
(* SISMEMBER returns that error.)                                          *)
(***************************************************************************)
\* autoEnabled has returned (false, nil): the handler answers "not enabled"
ReturnedDisabled(p) ==
  /\ ~en[p] /\ err[p] = ""
  /\ Answered(p, StatusBadRequest, "comments not enabled")

C19_FlagDecides ==
  [][/\ \A p \in Handlers :
          /\ (pc[p] = "autoEnabled_GET" /\ pc'[p] # pc[p] /\ ~FlagAbsent(p))
               => \/ BackendError(p)' /\ err'[p] = "GET failed"
                  \/ /\ IF ParseBool(strs[FlagKey(p)]).val
                        THEN ReturnedEnabled(p)' ELSE ReturnedDisabled(p)'
                     /\ writes'[p] = {}
                     /\ store' = store
          /\ (pc[p] = "autoEnabled_SISMEMBER" /\ pc'[p] # pc[p]
                /\ Host(p) \notin autoEnable)
               => \/ BackendError(p)' /\ err'[p] = "SISMEMBER failed"
                  \/ /\ ReturnedDisabled(p)'
                     /\ writes'[p] = {}
                     /\ store' = store
                     /\ FlagAbsent(p) => FlagAbsent(p)'
     /\ \A k \in DOMAIN strs' :
          (k \notin DOMAIN strs \/ strs'[k] # strs[k])
            => ParseBool(strs'[k]) = [val |-> TRUE, err |-> FALSE]]_vars

\* a submission to an allow-listed host was refused on its thread's false
\* flag, and one to a host off the list on an absent flag, left absent
C19_Witness ==
  \E p, q \in Handlers :
    /\ Submission(p) /\ ReturnedDisabled(p) /\ Host(p) \in autoEnable
    /\ ~FlagAbsent(p) /\ ~ParseBool(strs[FlagKey(p)]).val
    /\ Submission(q) /\ ReturnedDisabled(q) /\ Host(q) \notin autoEnable
    /\ FlagAbsent(q)


(***************************************************************************)
(* Submissions under fair scheduling.  While a goroutine can take a step   *)
(* of saveComment or the clock can move on, one of them eventually does:   *)
(* a time.Sleep returns.  Past MaxClock the clock is followed only while a *)
(* handler sleeps, up to LastSecond, which no handler of the program waits *)
(* for.  The submissions are valid ones to the thread h://a/b, which is    *)
(* enabled by its flag and may hold the comment of an earlier submission   *)
(* made in the current second.  No Akismet key is configured.              *)
(***************************************************************************)
LastSecond == MaxClock + NumHandlers * NumHandlers

\* a second passes while a handler is in saveComment's time.Sleep
TickForSleeper ==
  /\ now >= MaxClock
  /\ now < LastSecond
  /\ \E p \in Handlers : pc[p] = "saveComment_Now" /\ wake[p] > now
  /\ now' = now + 1
  /\ UNCHANGED <<akismetKey, store, locals, writes, posted, history>>

InitFair ==
  /\ now = 1
  /\ akismetKey = <<>>
  /\ autoEnable \in AllowLists
  /\ strs = [ k \in { keyEnabled(StoredThread[1], StoredThread[2]) } |->
               CachedFlag ]
  /\ \E S \in SUBSET {1} :
       /\ zsets = IF S = {} THEN <<>>
                  ELSE [ k \in { keyAll(StoredThread[1], StoredThread[2]) }
                           |-> { <<n, FormatInt(n)>> : n \in S } ]
       /\ hashes = [ k \in { keyComment(StoredThread[1], StoredThread[2], n) :
                               n \in S } |-> StoredRecord ]
  /\ InitLocals

FairRequests == { Form("POST", UrlAB, Author, Content, <<>>) }

SaveCommentStep(p) ==
  \/ SaveCommentNow(p)
  \/ SaveCommentZAdd(p)
  \/ SaveCommentHMSet(p)

NextFair ==
  \/ Tick
  \/ TickForSleeper
  \/ \E p \in Handlers :
       \/ RequestPostOf(p, FairRequests)
       \/ AutoEnabledGet(p)
       \/ SaveCommentStep(p)

\* some goroutine that can run does, or the clock moves on
Progress == Tick \/ TickForSleeper \/ \E p \in Handlers : SaveCommentStep(p)

Fairness == WF_vars(Progress)

SpecFair == InitFair /\ [][NextFair]_vars /\ Fairness

(***************************************************************************)
(* C20.  The allocator's retry loop terminates whenever contention is      *)
(* finite: with a finite number of submissions to a thread, a clock that   *)
(* never goes backwards and advances by at least one second across each    *)
(* sleep, no store errors, and weak fairness, every saveComment call       *)
(* eventually returns an identifier (a call the store fails on returns     *)
(* that error); a call with no other submission on its thread returns      *)
(* after at most one retry.                                                *)
(***************************************************************************)
\* saveComment has returned a store error to the handler
SaveFailed(p) == pc[p] = "done" /\ err[p] \in SaveErrors

\* no other handler serves a submission to p's thread
Alone(p) ==
  \A q \in Handlers \ {p} : ~(Submission(q) /\ Thread(q) = Thread(p))

C20_RetryLoopTerminates ==
  /\ \A p \in Handlers :
       (pc[p] = "saveComment_Now") ~> (Allocated(p) \/ SaveFailed(p))
  /\ [](\A p \in Handlers : (Submission(p) /\ Alone(p)) => retries[p] <= 1)

\* a submission alone on its thread met the identifier of the current
\* second, slept once and was given the next
C20_Witness ==
  \E p \in Handlers :
    /\ Allocated(p) /\ Alone(p) /\ retries[p] = 1
    /\ id[p] \in AllIndex(Thread(p))


====
